---- MODULE Spec2Model ----
(***************************************************************************)
(* State-machine model of the sparrow-installer terminal front-end         *)
(* (src/src/main.rs): the App session, the event loop run_app and the      *)
(* tail of main that executes the deferred system action.                  *)
(*                                                                         *)
(* Conventions                                                             *)
(*  - The App struct is one record, the variable app.  Every method of App *)
(*    is an operator from the record (self) to the record after the call.  *)
(*  - Option<T> is None / Some(v).                                         *)
(*  - Strings that are compared or searched (messages, error texts) are    *)
(*    sequences of tokens, so that format!() is concatenation and          *)
(*    str::contains is a real sub-sequence search.                         *)
(*  - An Instant is stored as its age: the whole seconds elapsed since it  *)
(*    was taken, saturated at the interval the code compares it with.      *)
(*    Instant::now() is age 0 and now.duration_since(t) is the age of t.   *)
(*  - Fields that only the renderer reads (theme, the texts themselves,    *)
(*    show_password) are left out; the configured countdown length,        *)
(*    text.progress.countdown_seconds, is the field countdown_seconds.     *)
(*  - spawned is the set of processes started so far and running the set   *)
(*    of those that have not exited.  log and piped are what the latest    *)
(*    step appended to the log and wrote to the stdin of a child process;  *)
(*    no operation reads them back, so earlier output is not kept.         *)
(***************************************************************************)
EXTENDS Integers, Sequences, FiniteSets, TLC

VARIABLES cli, app, pc, res, terminal, spawned, running, log, piped

vars == <<cli, app, pc, res, terminal, spawned, running, log, piped>>

(***************************** bounds **************************************)
\* longest secret typed into the password prompt
MaxPwLen == 1
\* largest configured countdown (text.progress.countdown_seconds)
MaxCountdown == 2
\* a configured countdown that does not end before the simulation timeout
LongCountdown == 10

(***************************** Option **************************************)
None == [some |-> FALSE]
Some(v) == [some |-> TRUE, val |-> v]

(***************************** strings *************************************)
\* str::contains on token sequences
Contains(s, t) ==
    \E i \in 0..(Len(s) - Len(t)) : SubSeq(s, i + 1, i + Len(t)) = t

(********************* embedded configuration ******************************)
\* text.messages.* : each configured message is one opaque token
confirm_default_install == <<"confirm_default_install">>
confirm_system_update == <<"confirm_system_update">>
progress_installing == <<"progress_installing">>
progress_updating == <<"progress_updating">>
processing == <<"processing">>
progress_rebooting == <<"progress_rebooting">>
progress_poweroff == <<"progress_poweroff">>
operation_success == <<"operation_success">>
option_disabled == <<"option_disabled">>
custom_disabled == <<"custom_disabled">>
password_empty_error == <<"password_empty_error">>
password_auth_failed == <<"password_auth_failed">>
dry_run_script_output == <<"dry_run_script_output">>
dry_run_update_output == <<"dry_run_update_output">>
\* text.messages.spinner_chars.len()
SpinnerLen == 4
\* theme.progress.spinner_speed and progress_bar_speed, in seconds
spinner_speed == 1
progress_bar_speed == 1

\* Duration::from_secs(1), the countdown interval
countdown_interval == 1
\* Duration::from_secs(10), the dry-run simulation timeout
DryRunTimeout == 10

(***************************** time ****************************************)
Min(a, b) == IF a < b THEN a ELSE b

\* the ages of the four Instants of App after one more second has elapsed
AdvanceTime(self) ==
    [self EXCEPT
        !.last_spinner_update = Min(@ + 1, spinner_speed),
        !.last_progress_update = Min(@ + 1, progress_bar_speed),
        !.last_countdown_update = Min(@ + 1, countdown_interval),
        !.dry_run_start_time =
            IF @.some THEN Some(Min(@.val + 1, DryRunTimeout)) ELSE @]

\* let now = Instant::now(); last_*_update = now
StampNow(self) ==
    [self EXCEPT
        !.last_spinner_update = 0,
        !.last_progress_update = 0,
        !.last_countdown_update = 0]

(***************************** menu ****************************************)
\* App::new: options
options == <<"Default", "Custom", "UpdateSystem", "Exit">>

\* InstallerOption::is_enabled
is_enabled(option) == option # "Custom"

MainMenu == [tag |-> "MainMenu", label |-> <<>>]
Confirmation == [tag |-> "Confirmation", label |-> <<>>]
PasswordInput == [tag |-> "PasswordInput", label |-> <<>>]
Processing(label) == [tag |-> "Processing", label |-> label]

Indeterminate == [kind |-> "Indeterminate", secs |-> 0]
Determinant(n) == [kind |-> "Determinant", secs |-> n]

\* mutant of App::new: the command-line flag is dropped
AppNew_ignores_flag(dry_run, countdown_seconds) ==
    [ selected |-> 0,
      should_quit |-> FALSE,
      dry_run |-> FALSE,
      status_message |-> None,
      show_confirmation |-> FALSE,
      confirmation_message |-> <<>>,
      app_state |-> MainMenu,
      countdown_seconds |-> countdown_seconds,
      progress_type |-> None,
      progress_step |-> 0,
      progress_bar_position |-> 0,
      countdown_remaining |-> 0,
      action_output |-> <<>>,
      last_spinner_update |-> 0,
      last_progress_update |-> 0,
      last_countdown_update |-> 0,
      dry_run_start_time |-> None,
      password_input |-> <<>>,
      pending_operation |-> None,
      pending_system_action |-> None ]

\* App::new
AppNew(dry_run, countdown_seconds) ==
    [ selected |-> 0,
      should_quit |-> FALSE,
      dry_run |-> dry_run,
      status_message |-> None,
      show_confirmation |-> FALSE,
      confirmation_message |-> <<>>,
      app_state |-> MainMenu,
      countdown_seconds |-> countdown_seconds,
      progress_type |-> None,
      progress_step |-> 0,
      progress_bar_position |-> 0,
      countdown_remaining |-> 0,
      action_output |-> <<>>,
      last_spinner_update |-> 0,
      last_progress_update |-> 0,
      last_countdown_update |-> 0,
      dry_run_start_time |-> None,
      password_input |-> <<>>,
      pending_operation |-> None,
      pending_system_action |-> None ]

\* App::next
next(self) ==
    [self EXCEPT !.selected = (self.selected + 1) % Len(options)]

\* mutant of App::previous: saturates at the first entry instead of wrapping
previous_no_wrap(self) ==
    [self EXCEPT !.selected =
        IF self.selected = 0 THEN 0 ELSE self.selected - 1]

\* App::previous
previous(self) ==
    [self EXCEPT !.selected =
        IF self.selected = 0 THEN Len(options) - 1 ELSE self.selected - 1]

\* App::show_confirmation
show_confirmation(self, message) ==
    [self EXCEPT
        !.confirmation_message = message,
        !.show_confirmation = TRUE,
        !.app_state = Confirmation]

\* mutant of App::hide_confirmation: the menu selection is reset
hide_confirmation_resets_selection(self) ==
    [self EXCEPT
        !.show_confirmation = FALSE,
        !.confirmation_message = <<>>,
        !.app_state = MainMenu,
        !.selected = 0]

\* mutant of App::hide_confirmation: the text is not cleared
hide_confirmation_keeps_text(self) ==
    [self EXCEPT
        !.show_confirmation = FALSE,
        !.app_state = MainMenu]

\* App::hide_confirmation
hide_confirmation(self) ==
    [self EXCEPT
        !.show_confirmation = FALSE,
        !.confirmation_message = <<>>,
        !.app_state = MainMenu]

\* mutant of App::show_password_input: the buffer is not emptied
show_password_input_keeps_secret(self, operation) ==
    [self EXCEPT
        !.app_state = PasswordInput,
        !.pending_operation = Some(operation)]

\* App::show_password_input
show_password_input(self, operation) ==
    [self EXCEPT
        !.app_state = PasswordInput,
        !.pending_operation = Some(operation),
        !.password_input = <<>>]

\* mutant of App::hide_password_input: pending_operation is not reset
hide_password_input_keeps_pending(self) ==
    [self EXCEPT
        !.app_state = MainMenu,
        !.password_input = <<>>]

\* App::hide_password_input
hide_password_input(self) ==
    [self EXCEPT
        !.app_state = MainMenu,
        !.pending_operation = None,
        !.password_input = <<>>]

\* App::clear_status
clear_status(self) == [self EXCEPT !.status_message = None]

(***************************** sequences ***********************************)
\* App::start_reboot
start_reboot(self) ==
    [StampNow(self) EXCEPT
        !.app_state = Processing(progress_rebooting),
        !.progress_type = Some(Determinant(self.countdown_seconds)),
        !.countdown_remaining = self.countdown_seconds,
        !.progress_step = 0,
        !.progress_bar_position = 0,
        !.action_output = <<>>,
        !.dry_run_start_time = IF self.dry_run THEN Some(0) ELSE None,
        !.pending_system_action = Some("Reboot")]

\* mutant of App::start_poweroff: countdown_remaining is not set
start_poweroff_no_countdown(self) ==
    [StampNow(self) EXCEPT
        !.app_state = Processing(progress_poweroff),
        !.progress_type = Some(Determinant(self.countdown_seconds)),
        !.progress_step = 0,
        !.progress_bar_position = 0,
        !.action_output = <<>>,
        !.dry_run_start_time = IF self.dry_run THEN Some(0) ELSE None,
        !.pending_system_action = Some("Poweroff")]

\* mutant of App::start_poweroff: the quit flag is set at once, without the
\* countdown
start_poweroff_quits_at_once(self) ==
    [StampNow(self) EXCEPT
        !.app_state = Processing(progress_poweroff),
        !.progress_type = Some(Determinant(self.countdown_seconds)),
        !.countdown_remaining = self.countdown_seconds,
        !.progress_step = 0,
        !.progress_bar_position = 0,
        !.action_output = <<>>,
        !.dry_run_start_time = IF self.dry_run THEN Some(0) ELSE None,
        !.pending_system_action = Some("Poweroff"),
        !.should_quit = TRUE]

\* App::start_poweroff
start_poweroff(self) ==
    [StampNow(self) EXCEPT
        !.app_state = Processing(progress_poweroff),
        !.progress_type = Some(Determinant(self.countdown_seconds)),
        !.countdown_remaining = self.countdown_seconds,
        !.progress_step = 0,
        !.progress_bar_position = 0,
        !.action_output = <<>>,
        !.dry_run_start_time = IF self.dry_run THEN Some(0) ELSE None,
        !.pending_system_action = Some("Poweroff")]

\* App::start_simulation
start_simulation(self, option) ==
    CASE option = "Default" ->
            [self EXCEPT !.action_output = dry_run_script_output]
      [] option = "UpdateSystem" ->
            [self EXCEPT !.action_output = dry_run_update_output]
      [] OTHER -> self

\* mutant of App::finish_current_operation: the poweroff test is inverted
finish_current_operation_swapped(self) ==
    IF self.progress_type.some /\ self.progress_type.val.kind = "Determinant"
    THEN
        LET is_poweroff == self.pending_system_action # Some("Poweroff")
        IN  IF self.dry_run
            THEN
                LET s1 == [self EXCEPT
                              !.progress_type = None,
                              !.action_output = <<>>,
                              !.progress_bar_position = 0,
                              !.dry_run_start_time = None,
                              !.password_input = <<>>]
                IN  IF is_poweroff
                    THEN [s1 EXCEPT !.should_quit = TRUE]
                    ELSE [StampNow(s1) EXCEPT
                            !.app_state = MainMenu,
                            !.status_message =
                                Some([text |-> <<"DRY-RUN: System action simulation complete">>,
                                      type |-> "Success"])]
            ELSE [self EXCEPT !.should_quit = TRUE]
    ELSE
        [StampNow(self) EXCEPT
            !.progress_type = None,
            !.app_state = MainMenu,
            !.status_message = Some([text |-> operation_success, type |-> "Success"]),
            !.action_output = <<>>,
            !.progress_bar_position = 0,
            !.dry_run_start_time = None,
            !.password_input = <<>>]

\* mutant of App::finish_current_operation: the indeterminate arm forgets
\* to clear progress_type
finish_current_operation_keeps_progress(self) ==
    IF self.progress_type.some /\ self.progress_type.val.kind = "Determinant"
    THEN
        LET is_poweroff == self.pending_system_action = Some("Poweroff")
        IN  IF self.dry_run
            THEN
                LET s1 == [self EXCEPT
                              !.progress_type = None,
                              !.action_output = <<>>,
                              !.progress_bar_position = 0,
                              !.dry_run_start_time = None,
                              !.password_input = <<>>]
                IN  IF is_poweroff
                    THEN [s1 EXCEPT !.should_quit = TRUE]
                    ELSE [StampNow(s1) EXCEPT
                            !.app_state = MainMenu,
                            !.status_message =
                                Some([text |-> <<"DRY-RUN: System action simulation complete">>,
                                      type |-> "Success"])]
            ELSE [self EXCEPT !.should_quit = TRUE]
    ELSE
        [StampNow(self) EXCEPT
            !.app_state = MainMenu,
            !.status_message = Some([text |-> operation_success, type |-> "Success"]),
            !.action_output = <<>>,
            !.progress_bar_position = 0,
            !.dry_run_start_time = None,
            !.password_input = <<>>]

\* App::finish_current_operation
finish_current_operation(self) ==
    IF self.progress_type.some /\ self.progress_type.val.kind = "Determinant"
    THEN
        LET is_poweroff == self.pending_system_action = Some("Poweroff")
        IN  IF self.dry_run
            THEN
                LET s1 == [self EXCEPT
                              !.progress_type = None,
                              !.action_output = <<>>,
                              !.progress_bar_position = 0,
                              !.dry_run_start_time = None,
                              !.password_input = <<>>]
                IN  IF is_poweroff
                    THEN [s1 EXCEPT !.should_quit = TRUE]
                    ELSE [StampNow(s1) EXCEPT
                            !.app_state = MainMenu,
                            !.status_message =
                                Some([text |-> <<"DRY-RUN: System action simulation complete">>,
                                      type |-> "Success"])]
            ELSE [self EXCEPT !.should_quit = TRUE]
    ELSE
        [StampNow(self) EXCEPT
            !.progress_type = None,
            !.app_state = MainMenu,
            !.status_message = Some([text |-> operation_success, type |-> "Success"]),
            !.action_output = <<>>,
            !.progress_bar_position = 0,
            !.dry_run_start_time = None,
            !.password_input = <<>>]

(***************************** results *************************************)
\* anyhow Result<()>: Ok(()) or Err(e), e given by its e.to_string()
Ok == [ok |-> TRUE, msg |-> <<>>]
Err(msg) == [ok |-> FALSE, msg |-> msg]

\* mutant of App::finish_operation: the error arm returns before the clean-up
finish_operation_keeps_secret(self, result) ==
    LET tail(s) == [StampNow(s) EXCEPT
                        !.action_output = <<>>,
                        !.progress_bar_position = 0,
                        !.dry_run_start_time = None,
                        !.password_input = <<>>]
    IN  IF result.ok
        THEN tail([self EXCEPT
                    !.progress_type = None,
                    !.app_state = MainMenu,
                    !.status_message =
                        Some([text |-> operation_success, type |-> "Success"])])
        ELSE IF self.pending_operation = Some("Default")
        THEN start_reboot([self EXCEPT !.pending_system_action = Some("Reboot")])
        ELSE [self EXCEPT
                    !.progress_type = None,
                    !.app_state = MainMenu,
                    !.status_message =
                        Some([text |-> <<"Error: ">> \o result.msg, type |-> "Error"])]

\* mutant of App::finish_operation: the error arm leaves progress_type set
finish_operation_error_keeps_progress(self, result) ==
    LET tail(s) == [StampNow(s) EXCEPT
                        !.action_output = <<>>,
                        !.progress_bar_position = 0,
                        !.dry_run_start_time = None,
                        !.password_input = <<>>]
    IN  IF result.ok
        THEN tail([self EXCEPT
                    !.progress_type = None,
                    !.app_state = MainMenu,
                    !.status_message =
                        Some([text |-> operation_success, type |-> "Success"])])
        ELSE IF self.pending_operation = Some("Default")
        THEN start_reboot([self EXCEPT !.pending_system_action = Some("Reboot")])
        ELSE tail([self EXCEPT
                    !.app_state = MainMenu,
                    !.status_message =
                        Some([text |-> <<"Error: ">> \o result.msg, type |-> "Error"])])

\* App::finish_operation
finish_operation(self, result) ==
    LET tail(s) == [StampNow(s) EXCEPT
                        !.action_output = <<>>,
                        !.progress_bar_position = 0,
                        !.dry_run_start_time = None,
                        !.password_input = <<>>]
    IN  IF result.ok
        THEN tail([self EXCEPT
                    !.progress_type = None,
                    !.app_state = MainMenu,
                    !.status_message =
                        Some([text |-> operation_success, type |-> "Success"])])
        ELSE IF self.pending_operation = Some("Default")
        THEN start_reboot([self EXCEPT !.pending_system_action = Some("Reboot")])
        ELSE tail([self EXCEPT
                    !.progress_type = None,
                    !.app_state = MainMenu,
                    !.status_message =
                        Some([text |-> <<"Error: ">> \o result.msg, type |-> "Error"])])

(***************************** command runner ******************************)
\* What the operating system answers to one process launch:
\*   kind "spawn_failed": the process could not be started
\*        "write_failed": started, writing to its stdin failed
\*        "wait_failed" : started, waiting for it failed
\*        "exited"      : it ran and exited, with success or not, and stderr
IoError == <<"io error">>
StderrTexts ==
    { <<"Sorry, try again">>,
      <<"sudo:", "incorrect password">>,
      <<"no space left on device">>,
      <<"bootc:">> \o password_auth_failed }


\* alive: the process is still running when the call returns.  A Child
\* that an early return through `?` drops is neither killed nor waited for.
Outcomes ==
    [kind : {"spawn_failed"}, success : {FALSE}, stderr : {<<>>}, alive : {FALSE}]
    \cup
    [kind : {"write_failed", "wait_failed"},
     success : {FALSE}, stderr : {<<>>}, alive : BOOLEAN]
    \cup
    [kind : {"exited"}, success : {TRUE}, stderr : {<<>>}, alive : {FALSE}]
    \cup
    [kind : {"exited"}, success : {FALSE}, stderr : StderrTexts, alive : {FALSE}]

\* the outcome handed to a handler that launches nothing
NoOutcome == [kind |-> "exited", success |-> TRUE, stderr |-> <<>>, alive |-> FALSE]

\* What a handler reports besides the App it leaves (self) and its Result:
\*   tried: a process launch was requested;  spawn: the processes started;
\*   left : those of spawn still running when the handler returns;
\*   log  : the records it appended to the log;
\*   piped: what it wrote to the stdin of the process it started

\* App::install_default_dotfiles; Command::output() pipes no stdin.
install_default_dotfiles(self, out) ==
    IF self.dry_run
    THEN [self |-> self, result |-> Ok, spawn |-> {}, tried |-> FALSE,
          left |-> {}, log |-> <<>>, piped |-> <<>>]
    ELSE
        LET cmd == {"bash setup.sh"}
        IN  CASE out.kind = "spawn_failed" ->
                    [self |-> self, result |-> Err(IoError),
                     spawn |-> {}, tried |-> TRUE,
                     left |-> {}, log |-> <<>>, piped |-> <<>>]
              [] out.kind \in {"wait_failed", "write_failed"} ->
                    [self |-> self, result |-> Err(IoError),
                     spawn |-> cmd, tried |-> TRUE,
                     left |-> IF out.alive THEN cmd ELSE {},
                     log |-> <<>>, piped |-> <<>>]
              [] OTHER ->
                    [self |-> self,
                     result |-> IF out.success
                                THEN Ok
                                ELSE Err(<<"Setup script failed: ">> \o out.stderr),
                     spawn |-> cmd, tried |-> TRUE,
                     left |-> {}, log |-> <<>>, piped |-> <<>>]

\* the two debug! records at the head of update_system (main.rs 746-747)
update_system_log(self) ==
    << <<"Inputted PWD: ">> \o self.password_input,
       <<"Dry-run State: ", IF self.dry_run THEN "true" ELSE "false">> >>

\* App::update_system
update_system(self, out) ==
    IF self.dry_run
    THEN [self |-> self, result |-> Ok, spawn |-> {}, tried |-> FALSE,
          left |-> {}, log |-> update_system_log(self), piped |-> <<>>]
    ELSE
        LET cleared == [self EXCEPT !.password_input = <<>>]
            cmd == {"sudo -S bootc update --apply"}
            line == self.password_input \o <<"\n">>
        IN  CASE out.kind = "spawn_failed" ->
                    [self |-> self, result |-> Err(IoError),
                     spawn |-> {}, tried |-> TRUE,
                     left |-> {}, log |-> update_system_log(self), piped |-> <<>>]
              [] out.kind = "write_failed" ->
                    [self |-> self, result |-> Err(IoError),
                     spawn |-> cmd, tried |-> TRUE,
                     left |-> IF out.alive THEN cmd ELSE {},
                     log |-> update_system_log(self), piped |-> <<>>]
              [] out.kind = "wait_failed" ->
                    [self |-> cleared, result |-> Err(IoError),
                     spawn |-> cmd, tried |-> TRUE,
                     left |-> IF out.alive THEN cmd ELSE {},
                     log |-> update_system_log(self), piped |-> line]
              [] OTHER ->
                    [self |-> cleared,
                     result |->
                        IF out.success THEN Ok
                        ELSE IF \/ Contains(out.stderr, <<"Sorry, try again">>)
                                \/ Contains(out.stderr, <<"incorrect password">>)
                        THEN Err(password_auth_failed)
                        ELSE Err(<<"System update failed: ">> \o out.stderr),
                     spawn |-> cmd, tried |-> TRUE,
                     left |-> {}, log |-> update_system_log(self), piped |-> line]

\* the arm `_ => Ok(())` of the match on the operation
no_command(self) ==
    [self |-> self, result |-> Ok, spawn |-> {}, tried |-> FALSE,
     left |-> {}, log |-> <<>>, piped |-> <<>>]

\* App::execute_reboot
execute_reboot(self) ==
    IF self.dry_run THEN {} ELSE {"systemctl reboot"}

\* App::execute_poweroff
execute_poweroff(self) ==
    IF self.dry_run THEN {} ELSE {"systemctl poweroff"}

(***************************** handlers ************************************)
\* the progress set-up shared by confirm_password and confirm_action
\* (main.rs 467-489 and 521-543)
begin_processing(self, option) ==
    LET action_description ==
            CASE option = "Default" -> progress_installing
              [] option = "UpdateSystem" -> progress_updating
              [] OTHER -> processing
    IN  [StampNow(self) EXCEPT
            !.app_state = Processing(action_description),
            !.progress_type = Some(Indeterminate),
            !.progress_step = 0,
            !.progress_bar_position = 0,
            !.countdown_remaining = self.countdown_seconds,
            !.action_output = <<>>]

\* the match that awaits the command of the operation (main.rs 491-495, 550-554).
\* The time the caller is suspended is not observed: every path after the
\* await overwrites the Instants or clears progress before they are read.
run_operation(self, option, out) ==
    CASE option = "Default" -> install_default_dotfiles(self, out)
      [] option = "UpdateSystem" -> update_system(self, out)
      [] OTHER -> no_command(self)

\* mutant of App::confirm_password: the authentication failure is not told
\* apart from the other failures
confirm_password_no_auth_check(self, out) ==
    IF ~self.pending_operation.some
    THEN no_command(self)
    ELSE
        LET operation == self.pending_operation.val
        IN  IF self.dry_run
            THEN
                LET confirmation_message ==
                        CASE operation = "Default" -> confirm_default_install
                          [] operation = "UpdateSystem" -> confirm_system_update
                          [] OTHER -> <<"Confirm operation?">>
                IN  no_command(show_confirmation(self, confirmation_message))
            ELSE
                LET r == run_operation(begin_processing(self, operation), operation, out)
                IN  [r EXCEPT !.self = finish_operation(@, r.result)]

\* mutant of App::confirm_password: the confirmation is shown in real mode
\* too
confirm_password_always_confirms(self, out) ==
    IF ~self.pending_operation.some
    THEN no_command(self)
    ELSE
        LET operation == self.pending_operation.val
            confirmation_message ==
                CASE operation = "Default" -> confirm_default_install
                  [] operation = "UpdateSystem" -> confirm_system_update
                  [] OTHER -> <<"Confirm operation?">>
        IN  no_command(show_confirmation(self, confirmation_message))

\* App::confirm_password
confirm_password(self, out) ==
    IF ~self.pending_operation.some
    THEN no_command(self)
    ELSE
        LET operation == self.pending_operation.val
        IN  IF self.dry_run
            THEN
                LET confirmation_message ==
                        CASE operation = "Default" -> confirm_default_install
                          [] operation = "UpdateSystem" -> confirm_system_update
                          [] OTHER -> <<"Confirm operation?">>
                IN  no_command(show_confirmation(self, confirmation_message))
            ELSE
                LET r == run_operation(begin_processing(self, operation), operation, out)
                IN  IF ~r.result.ok /\ Contains(r.result.msg, password_auth_failed)
                    THEN [r EXCEPT !.self =
                            [@ EXCEPT
                                !.progress_type = None,
                                !.app_state = PasswordInput,
                                !.pending_operation = Some(operation),
                                !.password_input = <<>>,
                                !.status_message =
                                    Some([text |-> r.result.msg, type |-> "Error"])]]
                    ELSE [r EXCEPT !.self = finish_operation(@, r.result)]

\* App::confirm_action
confirm_action(self, out) ==
    LET option == options[self.selected + 1]
        s1 == begin_processing(hide_confirmation(self), option)
    IN  IF self.dry_run
        THEN no_command(start_simulation(
                [s1 EXCEPT !.dry_run_start_time = Some(0)], option))
        ELSE
            LET r == run_operation(s1, option, out)
            IN  [r EXCEPT !.self = finish_operation(@, r.result)]

\* App::execute_option
execute_option(self) ==
    LET option == options[self.selected + 1]
        disabled(msg) ==
            [self EXCEPT !.status_message = Some([text |-> msg, type |-> "Fail"])]
    IN  CASE option = "Default" ->
                IF is_enabled(option)
                THEN show_confirmation(self, confirm_default_install)
                ELSE disabled(option_disabled)
          [] option = "UpdateSystem" ->
                IF is_enabled(option)
                THEN show_password_input(self, option)
                ELSE disabled(option_disabled)
          [] option = "Exit" -> start_poweroff(self)
          [] OTHER -> disabled(custom_disabled)

\* mutant of App::update_progress: the simulation timeout is compared with >
update_progress_late_timeout(self) ==
    IF ~self.progress_type.some
    THEN self
    ELSE IF /\ self.dry_run
            /\ self.dry_run_start_time.some
            /\ self.dry_run_start_time.val > DryRunTimeout
    THEN finish_current_operation(self)
    ELSE IF self.progress_type.val.kind = "Indeterminate"
    THEN
        LET s1 == IF self.last_spinner_update >= spinner_speed
                  THEN [self EXCEPT
                            !.progress_step = (@ + 1) % SpinnerLen,
                            !.last_spinner_update = 0]
                  ELSE self
        IN  IF s1.last_progress_update >= progress_bar_speed
            THEN [s1 EXCEPT
                    !.progress_bar_position = @ + 1,
                    !.last_progress_update = 0]
            ELSE s1
    ELSE IF self.last_countdown_update >= countdown_interval
    THEN IF self.countdown_remaining > 0
         THEN [self EXCEPT
                    !.countdown_remaining = @ - 1,
                    !.last_countdown_update = 0]
         ELSE finish_current_operation(self)
    ELSE self

\* mutant of App::update_progress: the countdown does not wait for its interval
update_progress_no_interval(self) ==
    IF ~self.progress_type.some
    THEN self
    ELSE IF /\ self.dry_run
            /\ self.dry_run_start_time.some
            /\ self.dry_run_start_time.val >= DryRunTimeout
    THEN finish_current_operation(self)
    ELSE IF self.progress_type.val.kind = "Indeterminate"
    THEN
        LET s1 == IF self.last_spinner_update >= spinner_speed
                  THEN [self EXCEPT
                            !.progress_step = (@ + 1) % SpinnerLen,
                            !.last_spinner_update = 0]
                  ELSE self
        IN  IF s1.last_progress_update >= progress_bar_speed
            THEN [s1 EXCEPT
                    !.progress_bar_position = @ + 1,
                    !.last_progress_update = 0]
            ELSE s1
    ELSE IF self.countdown_remaining > 0
         THEN [self EXCEPT
                    !.countdown_remaining = @ - 1,
                    !.last_countdown_update = 0]
         ELSE finish_current_operation(self)

\* mutant of App::update_progress: the second that brings the countdown to
\* 0 also completes the sequence
update_progress_finish_at_zero(self) ==
    IF ~self.progress_type.some
    THEN self
    ELSE IF /\ self.dry_run
            /\ self.dry_run_start_time.some
            /\ self.dry_run_start_time.val >= DryRunTimeout
    THEN finish_current_operation(self)
    ELSE IF self.progress_type.val.kind = "Indeterminate"
    THEN
        LET s1 == IF self.last_spinner_update >= spinner_speed
                  THEN [self EXCEPT
                            !.progress_step = (@ + 1) % SpinnerLen,
                            !.last_spinner_update = 0]
                  ELSE self
        IN  IF s1.last_progress_update >= progress_bar_speed
            THEN [s1 EXCEPT
                    !.progress_bar_position = @ + 1,
                    !.last_progress_update = 0]
            ELSE s1
    ELSE IF self.last_countdown_update >= countdown_interval
    THEN IF self.countdown_remaining > 1
         THEN [self EXCEPT
                    !.countdown_remaining = @ - 1,
                    !.last_countdown_update = 0]
         ELSE finish_current_operation(
                [self EXCEPT !.countdown_remaining = 0,
                             !.last_countdown_update = 0])
    ELSE self

\* App::update_progress
update_progress(self) ==
    IF ~self.progress_type.some
    THEN self
    ELSE IF /\ self.dry_run
            /\ self.dry_run_start_time.some
            /\ self.dry_run_start_time.val >= DryRunTimeout
    THEN finish_current_operation(self)
    ELSE IF self.progress_type.val.kind = "Indeterminate"
    THEN
        LET s1 == IF self.last_spinner_update >= spinner_speed
                  THEN [self EXCEPT
                            !.progress_step = (@ + 1) % SpinnerLen,
                            !.last_spinner_update = 0]
                  ELSE self
        IN  IF s1.last_progress_update >= progress_bar_speed
            THEN [s1 EXCEPT
                    !.progress_bar_position = @ + 1,
                    !.last_progress_update = 0]
            ELSE s1
    ELSE IF self.last_countdown_update >= countdown_interval
    THEN IF self.countdown_remaining > 0
         THEN [self EXCEPT
                    !.countdown_remaining = @ - 1,
                    !.last_countdown_update = 0]
         ELSE finish_current_operation(self)
    ELSE self

(***************************** event loop **********************************)
Chars == {"y", "n", "q"}
KeyCodes == {"Enter", "Esc", "Backspace", "Up", "Down", "F1"}
Keys == [code : KeyCodes, c : {""}] \cup [code : {"Char"}, c : Chars]
Key(code) == [code |-> code, c |-> ""]
Char(c) == [code |-> "Char", c |-> c]

\* String::pop
pop(s) == IF s = <<>> THEN s ELSE SubSeq(s, 1, Len(s) - 1)

\* mutant of the Enter arm of the password prompt: the buffer is submitted
\* without the emptiness test
submit_password_unchecked(self, out) == confirm_password(self, out)

\* run_app: Enter in the password prompt (main.rs 1342-1354)
submit_password(self, out) ==
    IF self.password_input # <<>>
    THEN confirm_password(self, out)
    ELSE no_command([self EXCEPT !.status_message =
            Some([text |-> password_empty_error, type |-> "Error"])])

\* mutant of the Esc arm while progress is shown: the simulation timer is
\* left running
abort_simulation_keeps_timer(self) ==
    IF self.dry_run
    THEN [self EXCEPT
            !.progress_type = None,
            !.app_state = MainMenu,
            !.status_message =
                Some([text |-> <<"Simulation cancelled.">>, type |-> "Error"]),
            !.action_output = <<>>]
    ELSE self

\* run_app: Esc while progress is shown (main.rs 1394-1404)
abort_simulation(self) ==
    IF self.dry_run
    THEN [self EXCEPT
            !.progress_type = None,
            !.app_state = MainMenu,
            !.status_message =
                Some([text |-> <<"Simulation cancelled.">>, type |-> "Error"]),
            !.action_output = <<>>,
            !.dry_run_start_time = None]
    ELSE self

\* run_app: the dispatch of one key event (main.rs 1340-1432).  The arms
\* `if let Err(e)` around the handlers are dead: the handlers return Ok(()).
on_key(self, key, out) ==
    IF self.app_state = PasswordInput
    THEN CASE key.code = "Enter" -> submit_password(self, out)
           [] key.code = "Esc" -> no_command(hide_password_input(self))
           [] key.code = "Backspace" ->
                no_command([self EXCEPT !.password_input = pop(@)])
           [] key.code = "Char" ->
                no_command([self EXCEPT !.password_input = Append(@, key.c)])
           [] OTHER -> no_command(self)
    ELSE IF self.show_confirmation
    THEN CASE key.code = "Enter" \/ key = Char("y") -> confirm_action(self, out)
           [] key.code = "Esc" \/ key = Char("n") ->
                no_command(hide_confirmation(self))
           [] OTHER -> no_command(self)
    ELSE IF self.progress_type.some
    THEN IF key.code = "Esc"
         THEN no_command(abort_simulation(self))
         ELSE no_command(self)
    ELSE CASE key = Char("q") -> no_command(start_poweroff(self))
           [] key.code = "Down" -> no_command(clear_status(next(self)))
           [] key.code = "Up" -> no_command(clear_status(previous(self)))
           [] key.code = "Enter" -> no_command(execute_option(self))
           [] key.code = "Esc" -> no_command(clear_status(self))
           [] OTHER -> no_command(self)

\* the answers the operating system can give to the launch that the
\* dispatch of key makes, if it makes one
OutcomesFor(self, key) ==
    IF on_key(self, key, NoOutcome).tried THEN Outcomes ELSE {NoOutcome}

\* mutant of the quit check of run_app: the flag is not looked at
quit_check_never(self) == "top"

\* run_app: if app.should_quit { return Ok(()) } (main.rs 1436-1438)
quit_check(self) == IF self.should_quit THEN "restore" ELSE "top"

RawTerminal == [raw |-> TRUE, alternate |-> TRUE]

\* main: Cli::parse, terminal set-up, App::new (main.rs 1275-1286)
Init ==
    /\ cli \in [dry_run : BOOLEAN, countdown_seconds : 0..MaxCountdown]
    /\ app = AppNew(cli.dry_run, cli.countdown_seconds)
    /\ pc = "top"
    /\ res = "running"
    /\ terminal = RawTerminal
    /\ spawned = {}
    /\ running = {}
    /\ log = <<>>
    /\ piped = <<>>

\* a step that appends nothing to the log and writes to no child
Quiet == log' = <<>> /\ piped' = <<>>

\* mutant of the head of run_app: the call of update_progress is left out
LoopTop_no_advance ==
    /\ pc = "top"
    /\ app' = app
    /\ pc' = "poll"
    /\ Quiet
    /\ UNCHANGED <<cli, res, terminal, spawned, running>>

\* run_app: terminal.draw, then update_progress while progress is shown
\* (main.rs 1328-1333)
LoopTop ==
    /\ pc = "top"
    /\ app' = IF app.progress_type.some THEN update_progress(app) ELSE app
    /\ pc' = "poll"
    /\ Quiet
    /\ UNCHANGED <<cli, res, terminal, spawned, running>>

\* run_app: terminal.draw()? fails and the loop returns the error
DrawError ==
    /\ pc = "top"
    /\ pc' = "restore"
    /\ res' = "Err"
    /\ Quiet
    /\ UNCHANGED <<cli, app, terminal, spawned, running>>

\* The clock advances by one second while poll() waits; several such
\* steps may precede the next loop iteration.  Only while progress is
\* shown: every start of progress overwrites the Instants, so the time
\* that passes without progress is never read.
Tick ==
    /\ pc = "poll"
    /\ app.progress_type.some
    /\ AdvanceTime(app) # app
    /\ app' = AdvanceTime(app)
    /\ Quiet
    /\ UNCHANGED <<cli, pc, res, terminal, spawned, running>>

\* run_app: poll() times out, or the event read is not a key event; then
\* the quit check
PollNoKey ==
    /\ pc = "poll"
    /\ pc' = quit_check(app)
    /\ res' = IF app.should_quit THEN "Ok" ELSE res
    /\ Quiet
    /\ UNCHANGED <<cli, app, terminal, spawned, running>>

\* run_app: poll()? or event::read()? fails and the loop returns the error
PollError ==
    /\ pc = "poll"
    /\ pc' = "restore"
    /\ res' = "Err"
    /\ Quiet
    /\ UNCHANGED <<cli, app, terminal, spawned, running>>

\* run_app: a key event is read and dispatched, then the quit check
\* (main.rs 1338-1438)
KeyEvent(key, out) ==
    /\ pc = "poll"
    /\ key.code = "Char" /\ app.app_state = PasswordInput
            => Len(app.password_input) < MaxPwLen
    /\ LET r == on_key(app, key, out)
       IN  /\ app' = r.self
           /\ spawned' = spawned \cup r.spawn
           /\ running' = running \cup r.left
           /\ log' = r.log
           /\ piped' = r.piped
           /\ pc' = quit_check(r.self)
           /\ res' = IF r.self.should_quit THEN "Ok" ELSE res
    /\ UNCHANGED <<cli, terminal>>

\* main: the terminal is restored (main.rs 1290-1296)
MainRestore ==
    /\ pc = "restore"
    /\ terminal' = [raw |-> FALSE, alternate |-> FALSE]
    /\ pc' = "sysaction"
    /\ Quiet
    /\ UNCHANGED <<cli, app, res, spawned, running>>

\* mutant of the restore of main: a failed restore step is ignored and main
\* goes on to the system action
MainRestoreError_continues(stage) ==
    /\ pc = "restore"
    /\ terminal' = [raw |-> stage = 1, alternate |-> stage \in {1, 2}]
    /\ pc' = "sysaction"
    /\ Quiet
    /\ UNCHANGED <<cli, app, res, spawned, running>>

\* main: disable_raw_mode()? (stage 1), execute!(LeaveAlternateScreen)?
\* (stage 2) or show_cursor()? (stage 3) fails and main returns the error
MainRestoreError(stage) ==
    /\ pc = "restore"
    /\ terminal' = [raw |-> stage = 1, alternate |-> stage \in {1, 2}]
    /\ pc' = "done"
    /\ Quiet
    /\ UNCHANGED <<cli, app, res, spawned, running>>

\* main: the pending system action is executed (main.rs 1298-1320)
MainSystemAction ==
    /\ pc = "sysaction"
    /\ spawned' = spawned \cup
            IF app.pending_system_action.some /\ ~app.dry_run
            THEN IF app.pending_system_action.val = "Reboot"
                 THEN execute_reboot(app)
                 ELSE execute_poweroff(app)
            ELSE {}
    /\ pc' = "done"
    /\ Quiet
    /\ UNCHANGED <<cli, app, res, terminal, running>>

\* a process that was left running exits
ChildExit ==
    /\ \E p \in running : running' = running \ {p}
    /\ Quiet
    /\ UNCHANGED <<cli, app, pc, res, terminal, spawned>>

Next ==
    \/ LoopTop
    \/ DrawError
    \/ Tick
    \/ PollNoKey
    \/ PollError
    \/ \E key \in Keys : \E out \in OutcomesFor(app, key) : KeyEvent(key, out)
    \/ MainRestore
    \/ \E stage \in 1..3 : MainRestoreError(stage)
    \/ MainSystemAction
    \/ ChildExit

Spec == Init /\ [][Next]_vars

\* main with a short or a long configured countdown
InitLong ==
    /\ cli \in [dry_run : BOOLEAN, countdown_seconds : {MaxCountdown, LongCountdown}]
    /\ app = AppNew(cli.dry_run, cli.countdown_seconds)
    /\ pc = "top"
    /\ res = "running"
    /\ terminal = RawTerminal
    /\ spawned = {}
    /\ running = {}
    /\ log = <<>>
    /\ piped = <<>>

SpecLong == InitLong /\ [][Next]_vars

\* run_app and main keep running: the loop body, the poll (at most 100 ms,
\* main.rs 1338) and the two steps of main after the loop are always taken
\* in the end, each with whatever result it has; and time keeps advancing
\* (strongly fair, since the clock step is interleaved with the poll).
Fairness ==
    /\ WF_vars(LoopTop \/ DrawError)
    /\ WF_vars(\/ PollNoKey
               \/ PollError
               \/ \E key \in Keys : \E out \in OutcomesFor(app, key) : KeyEvent(key, out))
    /\ WF_vars(MainRestore \/ \E stage \in 1..3 : MainRestoreError(stage))
    /\ WF_vars(MainSystemAction)
    /\ SF_vars(Tick)

SpecLive == Init /\ [][Next]_vars /\ Fairness

(***************************** steps ***************************************)
IsDeterminant(self) ==
    self.progress_type.some /\ self.progress_type.val.kind = "Determinant"

IsIndeterminate(self) ==
    self.progress_type.some /\ self.progress_type.val.kind = "Indeterminate"

\* the step dispatches key, the operating system answering out
Dispatch(key, out) == KeyEvent(key, out) /\ out \in OutcomesFor(app, key)

\* the step is one call of update_progress by the loop
Advance == LoopTop /\ app.progress_type.some

(***************************** claims **************************************)
\* C1: every transition that leaves PasswordInput or Processing, in either
\* mode and by any route, ends in a state whose password_input is empty.
C1_SecretEmptyOnLeave ==
    [][ /\ app.app_state.tag \in {"PasswordInput", "Processing"}
        /\ app'.app_state.tag # app.app_state.tag
        => app'.password_input = <<>> ]_vars

\* C2: in real mode, when the Default install is chosen in the menu and
\* confirmed and the install command fails, the next state is a determinate
\* Reboot sequence with pending_system_action = Reboot, and is not MainMenu.
C2_DefaultFailureReboots ==
    [][ \A key \in {Key("Enter"), Char("y")} : \A out \in Outcomes :
            /\ ~app.dry_run
            /\ app.app_state = Confirmation
            /\ options[app.selected + 1] = "Default"
            /\ ~install_default_dotfiles(app, out).result.ok
            /\ Dispatch(key, out)
            => /\ app'.app_state = Processing(progress_rebooting)
               /\ IsDeterminant(app')
               /\ app'.pending_system_action = Some("Reboot") ]_vars

\* C3: in real mode, submitting a non-empty secret for which update_system
\* returns the authentication failure leaves PasswordInput, the same
\* pending_operation, an empty password_input, no progress and an error
\* status; from that state the same holds again.
C3_AuthFailureReturnsToPrompt ==
    [][ \A out \in Outcomes :
            /\ ~app.dry_run
            /\ app.app_state = PasswordInput
            /\ app.password_input # <<>>
            /\ update_system(app, out).result = Err(password_auth_failed)
            /\ Dispatch(Key("Enter"), out)
            => /\ app'.app_state = PasswordInput
               /\ app'.pending_operation = app.pending_operation
               /\ app'.pending_operation.some
               /\ app'.password_input = <<>>
               /\ app'.progress_type = None
               /\ app'.status_message.some
               /\ app'.status_message.val.type = "Error" ]_vars

\* C3 witness: the prompt is shown again after an authentication failure
C3_Witness ==
    /\ ~app.dry_run
    /\ app.app_state = PasswordInput
    /\ app.pending_operation = Some("UpdateSystem")
    /\ app.password_input = <<>>
    /\ app.status_message = Some([text |-> password_auth_failed, type |-> "Error"])
    /\ spawned = {"sudo -S bootc update --apply"}

\* C4: in dry-run, confirming the Default install starts an indeterminate
\* simulation and launches nothing; unless Esc is pressed the simulation
\* stays in Processing while fewer than 10 seconds have elapsed since the
\* confirmation, and the first update_progress at or after 10 seconds
\* returns to MainMenu with the success status and no progress.
Simulating(self) ==
    /\ self.app_state = Processing(progress_installing)
    /\ IsIndeterminate(self)
    /\ self.dry_run_start_time.some

C4_DryRunDefaultSimulation ==
    [][ /\ ( /\ app.dry_run
             /\ app.app_state = Confirmation
             /\ options[app.selected + 1] = "Default"
             /\ Dispatch(Key("Enter"), NoOutcome) \/ Dispatch(Char("y"), NoOutcome) )
           => /\ Simulating(app')
              /\ app'.dry_run_start_time = Some(0)
              /\ spawned' = spawned
        /\ ( /\ app.dry_run
             /\ Simulating(app)
             /\ ~Dispatch(Key("Esc"), NoOutcome) )
           => IF Advance /\ app.dry_run_start_time.val >= DryRunTimeout
              THEN /\ app'.app_state = MainMenu
                   /\ app'.status_message =
                        Some([text |-> operation_success, type |-> "Success"])
                   /\ app'.progress_type = None
              ELSE /\ Simulating(app')
                   /\ app'.dry_run_start_time.val >= app.dry_run_start_time.val
      ]_vars

\* C4 witness: the Default simulation has timed out and the menu shows success
C4_Witness ==
    /\ cli.dry_run
    /\ app.app_state = MainMenu
    /\ app.selected = 0
    /\ app.status_message = Some([text |-> operation_success, type |-> "Success"])
    /\ app.progress_type = None

\* C5: in dry-run no process is ever started, in the loop or after it.
C5_DryRunSpawnsNothing == cli.dry_run => spawned = {}

\* C5 witness: a dry run has ended with a poweroff pending and main has run
\* to its end
C5_Witness ==
    /\ cli.dry_run
    /\ pc = "done"
    /\ terminal = [raw |-> FALSE, alternate |-> FALSE]
    /\ app.should_quit
    /\ app.pending_system_action = Some("Poweroff")
    /\ spawned = {}

\* C6: selected is always an index of options, and in MainMenu Up and Down
\* move it by one with wrap-around: Up from 0 gives the last index, Down
\* from the last index gives 0.
C6_SelectionWraps ==
    [][ /\ app.selected \in 0..(Len(options) - 1)
        /\ app'.selected \in 0..(Len(options) - 1)
        /\ app.app_state = MainMenu /\ Dispatch(Key("Up"), NoOutcome)
           => app'.selected = IF app.selected = 0
                              THEN Len(options) - 1
                              ELSE app.selected - 1
        /\ app.app_state = MainMenu /\ Dispatch(Key("Down"), NoOutcome)
           => app'.selected = IF app.selected = Len(options) - 1
                              THEN 0
                              ELSE app.selected + 1 ]_vars

\* C6 witness: the last entry is selected in the menu
C6_Witness ==
    /\ app.app_state = MainMenu
    /\ app.selected = Len(options) - 1
    /\ pc = "top"

\* C7: countdown_remaining is never negative, and within a determinate
\* sequence it changes only in update_progress, by exactly -1, when at
\* least one second has elapsed since the previous change, which restarts
\* that second.
C7_CountdownByOne ==
    [][ /\ app.countdown_remaining >= 0
        /\ app'.countdown_remaining >= 0
        /\ ( /\ IsDeterminant(app)
             /\ IsDeterminant(app')
             /\ app'.countdown_remaining # app.countdown_remaining )
           => /\ Advance
              /\ app'.countdown_remaining = app.countdown_remaining - 1
              /\ app.last_countdown_update >= countdown_interval
              /\ app'.last_countdown_update = 0 ]_vars

\* C7 witness: a countdown that started above 0 has been counted down to 0
C7_Witness ==
    /\ IsDeterminant(app)
    /\ app.countdown_seconds > 0
    /\ app.countdown_remaining = 0
    /\ ~app.should_quit

C9_DryRunPoweroffQuits ==
    [][ /\ app.dry_run /\ IsDeterminant(app)
        => /\ ( /\ Advance
                /\ ~IsDeterminant(app')
                /\ app.pending_system_action = Some("Poweroff") )
              => app'.should_quit /\ app'.app_state.tag = "Processing"
           /\ LET r == finish_current_operation(
                        [app EXCEPT !.pending_system_action = Some("Reboot")])
              IN  /\ r.should_quit = app.should_quit
                  /\ r.app_state = MainMenu
                  /\ r.progress_type = None
                  /\ r.status_message =
                        Some([text |-> <<"DRY-RUN: System action simulation complete">>,
                              type |-> "Success"]) ]_vars

\* C9 witness: a dry-run poweroff countdown has just completed
C9_Witness ==
    /\ cli.dry_run
    /\ app.should_quit
    /\ app.pending_system_action = Some("Poweroff")
    /\ app.progress_type = None
    /\ app.app_state = Processing(progress_poweroff)
    /\ pc = "poll"

\* C10: in real mode, after the dispatch of a key whose command was tried
\* and failed (authentication failure, non-zero exit, failed launch, failed
\* write of the secret, failed wait), password_input is empty.
C10_FailureClearsSecret ==
    [][ \A key \in Keys : \A out \in Outcomes :
            /\ ~app.dry_run
            /\ Dispatch(key, out)
            /\ on_key(app, key, out).tried
            /\ ~on_key(app, key, out).result.ok
            => app'.password_input = <<>> ]_vars

\* C10 witness: the update command could not be launched and the menu shows
\* the error
C10_Witness ==
    /\ ~cli.dry_run
    /\ app.app_state = MainMenu
    /\ app.selected = 2
    /\ app.status_message =
            Some([text |-> <<"Error: ">> \o IoError, type |-> "Error"])
    /\ spawned = {}
    /\ app.password_input = <<>>

\* C11: in every reachable state, in either mode and after any success,
\* failure or cancellation, app_state = MainMenu implies progress_type = None.
C11_MenuHasNoProgress ==
    app.app_state = MainMenu => app.progress_type = None

\* C11 witness: a dry-run simulation was cancelled and the menu is shown
\* without progress
C11_Witness ==
    /\ app.app_state = MainMenu
    /\ app.progress_type = None
    /\ app.status_message =
            Some([text |-> <<"Simulation cancelled.">>, type |-> "Error"])

\* C12: a reboot or poweroff command is started only by the tail of main,
\* in real mode, after run_app has returned and the terminal has left raw
\* mode and the alternate screen, and it is the command of the action that
\* pending_system_action holds at that moment.
C12_SystemActionDeferred ==
    [][ LET started == spawned' \ spawned
        IN  started \cap {"systemctl reboot", "systemctl poweroff"} # {}
            => /\ pc = "sysaction"
               /\ res # "running"
               /\ terminal = [raw |-> FALSE, alternate |-> FALSE]
               /\ ~app.dry_run
               /\ app.pending_system_action.some
               /\ started = IF app.pending_system_action.val = "Reboot"
                             THEN {"systemctl reboot"}
                             ELSE {"systemctl poweroff"} ]_vars

\* C12 witness: the poweroff command has been started after the loop
\* returned and the terminal was restored
C12_Witness ==
    /\ pc = "done"
    /\ res = "Ok"
    /\ terminal = [raw |-> FALSE, alternate |-> FALSE]
    /\ app.pending_system_action = Some("Poweroff")
    /\ "systemctl poweroff" \in spawned

\* C13 as stated: within one loop iteration a pending key event is
\* dispatched before that iteration's progress advance is applied, so the
\* advance is the last step of its iteration and no key is dispatched
\* between it and the next iteration.
C13_KeyBeforeAdvance ==
    [][ Advance => pc' # "poll" ]_vars

\* C13 amended: within one loop iteration the progress advance is applied
\* first, whenever progress is shown, and a pending key event is dispatched
\* after it; the dispatch is the last step of its iteration.
C13_AdvanceBeforeKey ==
    [][ /\ pc = "top" /\ pc' = "poll"
           => app' = IF app.progress_type.some THEN update_progress(app) ELSE app
        /\ \A key \in Keys : \A out \in OutcomesFor(app, key) :
                KeyEvent(key, out)
                => pc = "poll" /\ pc' \in {"top", "restore"} ]_vars

\* C13 witness: the advance of this iteration has counted the countdown
\* down and the loop now waits for a key
C13_Witness ==
    /\ pc = "poll"
    /\ IsDeterminant(app)
    /\ app.countdown_remaining < app.countdown_seconds
    /\ app.last_countdown_update = 0
    /\ ~app.should_quit

\* C14: at most one privileged command runs at any moment: a step that
\* starts a command (install script, update, reboot, poweroff) starts one
\* only, and at that moment no process started earlier is still running.
C14_OneCommandAtATime ==
    [][ /\ \A key \in Keys : \A out \in OutcomesFor(app, key) :
                KeyEvent(key, out) /\ on_key(app, key, out).spawn # {}
                => /\ running = {}
                   /\ Cardinality(on_key(app, key, out).spawn) = 1
        /\ MainSystemAction /\ spawned' # spawned
           => running = {} /\ Cardinality(spawned' \ spawned) = 1 ]_vars

\* C15: the cleartext of password_input is never written to the log: no
\* step appends a log record that contains the secret entered so far.
C15_SecretNotLogged ==
    [][ app.password_input # <<>>
        => \A i \in 1..Len(log') : ~Contains(log'[i], app.password_input) ]_vars

\* C16: from MainMenu, Enter on the Default install entry gives Confirmation
\* with the install prompt and sets pending_operation = Default.
C16_DefaultSetsPending ==
    [][ /\ app.app_state = MainMenu
        /\ options[app.selected + 1] = "Default"
        /\ Dispatch(Key("Enter"), NoOutcome)
        => /\ app'.app_state = Confirmation
           /\ app'.confirmation_message = confirm_default_install
           /\ app'.pending_operation = Some("Default") ]_vars

\* C17: from MainMenu, Enter on the Update system entry gives PasswordInput,
\* pending_operation = UpdateSystem and an empty password_input, whatever
\* password_input held before.
C17_UpdateOpensEmptyPrompt ==
    [][ /\ app.app_state = MainMenu
        /\ options[app.selected + 1] = "UpdateSystem"
        /\ Dispatch(Key("Enter"), NoOutcome)
        => /\ app'.app_state = PasswordInput
           /\ app'.pending_operation = Some("UpdateSystem")
           /\ app'.password_input = <<>> ]_vars

\* C17 witness: the prompt was opened right after a cancelled update
\* simulation, which had left its secret in the buffer, and is empty
C17_Witness ==
    /\ app.dry_run
    /\ app.app_state = PasswordInput
    /\ app.pending_operation = Some("UpdateSystem")
    /\ app.password_input = <<>>
    /\ app.status_message =
            Some([text |-> <<"Simulation cancelled.">>, type |-> "Error"])
    /\ pc = "top"

\* C18: from MainMenu, Enter on the Exit entry starts in one step, without
\* Confirmation or PasswordInput, a determinate Poweroff sequence with
\* pending_system_action = Poweroff and countdown_remaining equal to the
\* configured countdown.
C18_ExitStartsPoweroff ==
    [][ /\ app.app_state = MainMenu
        /\ options[app.selected + 1] = "Exit"
        /\ Dispatch(Key("Enter"), NoOutcome)
        => /\ app'.app_state = Processing(progress_poweroff)
           /\ app'.progress_type = Some(Determinant(cli.countdown_seconds))
           /\ app'.pending_system_action = Some("Poweroff")
           /\ app'.countdown_remaining = cli.countdown_seconds
           /\ app'.last_countdown_update = 0 ]_vars

\* C18 witness: the poweroff countdown has just been started from the
\* Exit entry with a countdown above 0
C18_Witness ==
    /\ app.app_state = Processing(progress_poweroff)
    /\ app.selected = 3
    /\ app.progress_type = Some(Determinant(cli.countdown_seconds))
    /\ app.pending_system_action = Some("Poweroff")
    /\ cli.countdown_seconds > 0
    /\ app.countdown_remaining = cli.countdown_seconds
    /\ pc = "top"

\* C19: from PasswordInput with a non-empty password_input, Enter in
\* dry-run gives Confirmation with the confirm text of the pending
\* operation, keeps password_input and pending_operation and starts no
\* command; in real mode it runs the command of the pending operation,
\* writing the secret and a newline to its stdin once it is started, and
\* the state after it is not Confirmation.
C19_SubmitSecret ==
    [][ /\ app.app_state = PasswordInput
        /\ app.password_input # <<>>
        => /\ app.dry_run /\ Dispatch(Key("Enter"), NoOutcome)
              => /\ app'.app_state = Confirmation
                 /\ app.pending_operation.some
                 /\ app'.confirmation_message =
                        IF app.pending_operation.val = "Default"
                        THEN confirm_default_install
                        ELSE confirm_system_update
                 /\ app'.password_input = app.password_input
                 /\ app'.pending_operation = app.pending_operation
                 /\ spawned' = spawned
                 /\ piped' = <<>>
           /\ \A out \in Outcomes :
                ~app.dry_run /\ Dispatch(Key("Enter"), out)
                => /\ on_key(app, Key("Enter"), out).tried
                   /\ app.pending_operation = Some("UpdateSystem")
                   /\ out.kind # "spawn_failed"
                      => "sudo -S bootc update --apply" \in spawned'
                   /\ out.kind \notin {"spawn_failed", "write_failed"}
                      => piped' = app.password_input \o <<"\n">>
                   /\ app'.app_state.tag \in {"MainMenu", "PasswordInput"}
                   /\ ~app'.show_confirmation ]_vars

\* C19 witness: in real mode the secret has just been written to the
\* update command, which then succeeded
C19_Witness ==
    /\ ~app.dry_run
    /\ piped = <<"y", "\n">>
    /\ spawned = {"sudo -S bootc update --apply"}
    /\ app.app_state = MainMenu
    /\ app.status_message = Some([text |-> operation_success, type |-> "Success"])

C21_ConfirmationCancelDiscards ==
    [][ /\ app.app_state = Confirmation
        /\ Dispatch(Key("Esc"), NoOutcome) \/ Dispatch(Char("n"), NoOutcome)
        => /\ app'.app_state = MainMenu
           /\ app'.pending_operation = None
           /\ app'.password_input = <<>> ]_vars

\* C22 as stated: from PasswordInput, Esc or n returns to MainMenu with
\* pending_operation = None and an empty password_input.
C22_PromptCancelKeys ==
    [][ /\ app.app_state = PasswordInput
        /\ Dispatch(Key("Esc"), NoOutcome) \/ Dispatch(Char("n"), NoOutcome)
        => /\ app'.app_state = MainMenu
           /\ app'.pending_operation = None
           /\ app'.password_input = <<>> ]_vars

\* C22 amended: from PasswordInput, Esc returns to MainMenu with
\* pending_operation = None and an empty password_input; n is not a cancel
\* key there: it is appended to password_input like any other character
\* and nothing else changes.
C22_PromptCancelEsc ==
    [][ app.app_state = PasswordInput
        => /\ Dispatch(Key("Esc"), NoOutcome)
              => /\ app'.app_state = MainMenu
                 /\ app'.pending_operation = None
                 /\ app'.password_input = <<>>
           /\ Dispatch(Char("n"), NoOutcome)
              => app' = [app EXCEPT !.password_input = Append(@, "n")] ]_vars

\* C22 witness: the prompt, which had complained about an empty secret, was
\* left with Esc
C22_Witness ==
    /\ app.app_state = MainMenu
    /\ app.pending_operation = None
    /\ app.password_input = <<>>
    /\ app.status_message =
            Some([text |-> password_empty_error, type |-> "Error"])

\* C23: while progress is shown, Esc in real mode changes nothing of the
\* App, for a determinate sequence and, were one shown, for an
\* indeterminate one; in dry-run Esc gives at once MainMenu with the
\* cancellation status, no progress and no simulation timer, and does not
\* set the quit flag.
C23_EscDuringProgress ==
    [][ app.progress_type.some /\ Dispatch(Key("Esc"), NoOutcome)
        => IF app.dry_run
           THEN /\ app'.app_state = MainMenu
                /\ app'.status_message =
                        Some([text |-> <<"Simulation cancelled.">>, type |-> "Error"])
                /\ app'.progress_type = None
                /\ app'.dry_run_start_time = None
                /\ ~app'.should_quit
           ELSE /\ app' = app
                /\ LET s == [app EXCEPT !.progress_type = Some(Indeterminate)]
                   IN  on_key(s, Key("Esc"), NoOutcome).self = s ]_vars

\* C23 witness: a dry-run poweroff countdown was cancelled with Esc
C23_Witness ==
    /\ app.dry_run
    /\ app.app_state = MainMenu
    /\ app.status_message =
            Some([text |-> <<"Simulation cancelled.">>, type |-> "Error"])
    /\ app.pending_system_action = Some("Poweroff")
    /\ app.dry_run_start_time = None
    /\ ~app.should_quit

\* C24: a status message shown in the menu is cleared by the next
\* navigation key (Up or Down) and by the next operation start (Enter on
\* Default install, Update system or Exit): after either, status_message
\* is None.
C24_StatusCleared ==
    [][ app.app_state = MainMenu /\ app.status_message.some
        => /\ Dispatch(Key("Up"), NoOutcome) \/ Dispatch(Key("Down"), NoOutcome)
              => app'.status_message = None
           /\ ( /\ options[app.selected + 1] \in {"Default", "UpdateSystem", "Exit"}
                /\ Dispatch(Key("Enter"), NoOutcome) )
              => app'.status_message = None ]_vars

\* C25: calling update_progress a second time with no time elapsed since
\* the first call changes nothing: progress_step, progress_bar_position,
\* countdown_remaining, app_state and should_quit are as the first call
\* left them.
C25_AdvanceIdempotent ==
    app.progress_type.some
    => LET once == update_progress(app)
           twice == update_progress(once)
       IN  /\ twice.progress_step = once.progress_step
           /\ twice.progress_bar_position = once.progress_bar_position
           /\ twice.countdown_remaining = once.countdown_remaining
           /\ twice.app_state = once.app_state
           /\ twice.should_quit = once.should_quit

\* C25 witness: a countdown is due for its next second, so that the first
\* of two calls does count
C25_Witness ==
    /\ pc = "top"
    /\ IsDeterminant(app)
    /\ app.countdown_remaining > 0
    /\ app.last_countdown_update >= countdown_interval
    /\ update_progress(app).countdown_remaining = app.countdown_remaining - 1

\* C26: in every reachable state show_confirmation is set exactly when
\* app_state = Confirmation, and confirmation_message is empty whenever
\* app_state is not Confirmation.
C26_ConfirmationFields ==
    /\ app.show_confirmation <=> app.app_state = Confirmation
    /\ app.app_state # Confirmation => app.confirmation_message = <<>>

\* C26 witness: a confirmation was answered with yes and the operation
\* that followed has left the flag and the text cleared
C26_Witness ==
    /\ app.app_state.tag = "Processing"
    /\ IsIndeterminate(app)
    /\ ~app.show_confirmation
    /\ app.confirmation_message = <<>>

\* C27: should_quit becomes true only in the update_progress that completes
\* a determinate sequence, no key and no command outcome sets it; and
\* whenever it is set pending_system_action is set, to Poweroff in dry-run.
C27_QuitOnlyByCompletion ==
    [][ /\ ~app.should_quit /\ app'.should_quit
           => /\ Advance
              /\ IsDeterminant(app)
              /\ app' = finish_current_operation(app)
        /\ app'.should_quit
           => /\ app'.pending_system_action.some
              /\ app'.dry_run => app'.pending_system_action = Some("Poweroff") ]_vars

\* C27 witness: a real poweroff countdown has completed and set the flag
C27_Witness ==
    /\ ~app.dry_run
    /\ app.should_quit
    /\ app.pending_system_action = Some("Poweroff")
    /\ IsDeterminant(app)
    /\ pc = "poll"

\* C28: in real mode the handler that starts a command also awaits it, so
\* no clock tick, progress advance or key dispatch acts on a state with
\* indeterminate progress, and at every loop-iteration boundary progress is
\* absent or determinate.
C28_NoStepWhileAwaiting ==
    [][ ~app.dry_run
        => /\ ( \/ Tick
                \/ LoopTop
                \/ \E key \in Keys : \E out \in OutcomesFor(app, key) :
                        KeyEvent(key, out) )
              => ~IsIndeterminate(app)
           /\ pc' \in {"top", "poll"} => ~IsIndeterminate(app') ]_vars

\* C28 witness: in real mode the install command was started and has
\* returned within one dispatch, and the loop begins its next iteration
\* without progress
C28_Witness ==
    /\ ~app.dry_run
    /\ pc = "top"
    /\ spawned = {"bash setup.sh"}
    /\ running = {}
    /\ app.app_state = MainMenu
    /\ app.progress_type = None
    /\ app.status_message = Some([text |-> operation_success, type |-> "Success"])

\* C29: Enter in PasswordInput with an empty password_input starts no
\* command, writes and logs nothing, and changes nothing of the App but
\* status_message, which becomes the empty-password error: app_state stays
\* PasswordInput and pending_operation is unchanged.
C29_EmptySecretRejected ==
    [][ \A out \in Outcomes :
            /\ app.app_state = PasswordInput
            /\ app.password_input = <<>>
            /\ Dispatch(Key("Enter"), out)
            => /\ app' = [app EXCEPT !.status_message =
                            Some([text |-> password_empty_error, type |-> "Error"])]
               /\ app'.app_state = PasswordInput
               /\ app'.pending_operation = app.pending_operation
               /\ spawned' = spawned
               /\ running' = running
               /\ piped' = <<>>
               /\ log' = <<>> ]_vars

\* C29 witness: the prompt shows the empty-password error and nothing was
\* started
C29_Witness ==
    /\ app.app_state = PasswordInput
    /\ app.password_input = <<>>
    /\ app.pending_operation = Some("UpdateSystem")
    /\ app.status_message =
            Some([text |-> password_empty_error, type |-> "Error"])
    /\ spawned = {}

\* C30: in dry-run a determinate Poweroff sequence is completed by the
\* first update_progress that finds 10 seconds or more elapsed since the
\* sequence started, or countdown_remaining = 0 and a second or more
\* elapsed since the countdown last changed, whichever comes first, and by
\* no other step; so with a configured countdown of 10 seconds or more the
\* quit flag is set while countdown_remaining is still above 0.
C30_DryRunPoweroffTimeout ==
    [][ /\ ( /\ app.dry_run
             /\ IsDeterminant(app)
             /\ app.pending_system_action = Some("Poweroff")
             /\ ~app.should_quit )
           => ( app'.should_quit
                <=> /\ Advance
                    /\ \/ app.dry_run_start_time.val >= DryRunTimeout
                       \/ /\ app.countdown_remaining = 0
                          /\ app.last_countdown_update >= countdown_interval )
        /\ ( /\ app'.dry_run
             /\ app'.should_quit
             /\ cli.countdown_seconds >= DryRunTimeout )
           => app'.countdown_remaining > 0 ]_vars

\* C30 witness: a dry-run poweroff with a countdown of 10 seconds or more
\* has set the quit flag with seconds left on the countdown
C30_Witness ==
    /\ cli.dry_run
    /\ cli.countdown_seconds >= DryRunTimeout
    /\ app.pending_system_action = Some("Poweroff")
    /\ app.should_quit
    /\ app.progress_type = None
    /\ app.countdown_remaining > 0

\* C31: in real mode a determinate sequence whose countdown_remaining is N
\* sets the quit flag on the (N+1)-th one-second tick, a tick being an
\* update_progress that finds a second or more elapsed since the countdown
\* last changed: a tick with countdown_remaining above 0, the one that
\* brings it to 0 included, takes one off and leaves the sequence running
\* in Processing; the tick at 0 sets the flag; no other step changes
\* countdown_remaining or the flag.
C31_QuitOnTickAfterZero ==
    [][ ( /\ ~app.dry_run
          /\ IsDeterminant(app)
          /\ ~app.should_quit )
        => IF Advance /\ app.last_countdown_update >= countdown_interval
           THEN IF app.countdown_remaining > 0
                THEN /\ app'.countdown_remaining = app.countdown_remaining - 1
                     /\ ~app'.should_quit
                     /\ IsDeterminant(app')
                     /\ app'.app_state = app.app_state
                     /\ app'.app_state.tag = "Processing"
                ELSE app'.should_quit
           ELSE /\ app'.countdown_remaining = app.countdown_remaining
                /\ ~app'.should_quit
                /\ app'.app_state = app.app_state ]_vars

\* C31 witness: in real mode the countdown has just been brought to 0 and
\* the sequence is still running
C31_Witness ==
    /\ ~app.dry_run
    /\ app.app_state = Processing(progress_poweroff)
    /\ IsDeterminant(app)
    /\ app.countdown_seconds > 0
    /\ app.countdown_remaining = 0
    /\ app.last_countdown_update = 0
    /\ ~app.should_quit
    /\ pc = "poll"

\* C32 as stated: selected is changed only by Up and Down in MainMenu, and
\* by no event in PasswordInput, Confirmation and Processing; hence in
\* Confirmation the selected entry is the one whose prompt is shown.
C32_SelectionFrame ==
    [][ /\ app'.selected # app.selected
           => /\ app.app_state = MainMenu
              /\ Dispatch(Key("Up"), NoOutcome) \/ Dispatch(Key("Down"), NoOutcome)
        /\ app'.app_state = Confirmation
           => \/ /\ app'.confirmation_message = confirm_default_install
                 /\ options[app'.selected + 1] = "Default"
              \/ /\ app'.confirmation_message = confirm_system_update
                 /\ options[app'.selected + 1] = "UpdateSystem" ]_vars

\* C32 amended: selected is changed only by Up and Down dispatched while
\* no password prompt, confirmation or progress is active (the menu arm of
\* the dispatch, which is also taken in Processing once a dry-run poweroff
\* has completed and cleared its progress), and by no event in
\* PasswordInput, in Confirmation or while progress is shown; hence in
\* Confirmation the selected entry is the one whose prompt is shown.
C32_SelectionFrameMenuArm ==
    [][ /\ app'.selected # app.selected
           => /\ app.app_state # PasswordInput
              /\ ~app.show_confirmation
              /\ app.progress_type = None
              /\ Dispatch(Key("Up"), NoOutcome) \/ Dispatch(Key("Down"), NoOutcome)
        /\ app'.app_state = Confirmation
           => \/ /\ app'.confirmation_message = confirm_default_install
                 /\ options[app'.selected + 1] = "Default"
              \/ /\ app'.confirmation_message = confirm_system_update
                 /\ options[app'.selected + 1] = "UpdateSystem" ]_vars

\* C32 witness: the update prompt was confirmed in dry-run and its
\* simulation runs with the Update system entry still selected
C32_Witness ==
    /\ app.dry_run
    /\ app.app_state = Processing(progress_updating)
    /\ IsIndeterminate(app)
    /\ app.action_output = dry_run_update_output
    /\ options[app.selected + 1] = "UpdateSystem"

\* a determinate Poweroff or Reboot sequence of real mode is under way
InSequence ==
    /\ pc \in {"top", "poll"}
    /\ ~app.dry_run
    /\ IsDeterminant(app)
    /\ app.pending_system_action.some
    /\ ~app.should_quit

\* C33 as stated: in real mode, once a determinate Poweroff or Reboot
\* sequence has started, no key event aborts it or changes
\* pending_system_action, and if time keeps advancing the quit flag is
\* eventually set and the loop exits.
C33_SequenceEndsInQuit ==
    /\ [][ InSequence /\ (\E key \in Keys : \E out \in OutcomesFor(app, key) : KeyEvent(key, out))
            => app' = app ]_vars
    /\ InSequence ~> (app.should_quit /\ pc \notin {"top", "poll"})

\* C33 amended: in real mode, once a determinate Poweroff or Reboot
\* sequence has started, no key event aborts it or changes
\* pending_system_action, and if time keeps advancing the loop eventually
\* exits, with the quit flag set unless a terminal I/O error (draw, poll or
\* read) ended the loop first.
C33_SequenceEndsLoop ==
    /\ [][ InSequence /\ (\E key \in Keys : \E out \in OutcomesFor(app, key) : KeyEvent(key, out))
            => app' = app ]_vars
    /\ InSequence ~> /\ pc \notin {"top", "poll"}
                     /\ app.pending_system_action.some
                     /\ app.should_quit \/ res = "Err"
    /\ [][ InSequence /\ pc' \notin {"top", "poll"}
            => app'.should_quit \/ DrawError \/ PollError ]_vars

\* C33 witness: the loop has exited on the quit flag that the countdown of
\* a real-mode poweroff set
C33_Witness ==
    /\ ~app.dry_run
    /\ IsDeterminant(app)
    /\ app.pending_system_action = Some("Poweroff")
    /\ app.countdown_seconds > 0
    /\ app.countdown_remaining = 0
    /\ app.should_quit
    /\ res = "Ok"
    /\ pc = "restore"

\* C34: in real mode, once main has ended after the loop returned, for
\* whatever reason (the quit flag or a terminal I/O error), the command of
\* the pending system action has been started whenever one is set.
C34_PendingActionExecuted ==
    ( /\ pc = "done"
      /\ ~app.dry_run
      /\ app.pending_system_action.some )
    => ( IF app.pending_system_action.val = "Reboot"
         THEN "systemctl reboot"
         ELSE "systemctl poweroff" ) \in spawned

\* C35: q pressed while no password prompt, confirmation or progress is
\* active starts the determinate Poweroff sequence that Enter on the Exit
\* entry starts (pending_system_action = Poweroff, no confirmation, the
\* selection left where it was); in PasswordInput q is appended to
\* password_input; in Confirmation and while progress is shown q changes
\* no state.
C35_QuitKey ==
    [][ Dispatch(Char("q"), NoOutcome)
        => /\ spawned' = spawned
           /\ IF app.app_state = PasswordInput
              THEN app' = [app EXCEPT !.password_input = Append(@, "q")]
              ELSE IF app.show_confirmation \/ app.progress_type.some
              THEN app' = app
              ELSE /\ app'.app_state = Processing(progress_poweroff)
                   /\ app'.progress_type = Some(Determinant(cli.countdown_seconds))
                   /\ app'.countdown_remaining = cli.countdown_seconds
                   /\ app'.last_countdown_update = 0
                   /\ app'.pending_system_action = Some("Poweroff")
                   /\ ~app'.show_confirmation
                   /\ app'.selected = app.selected
                   /\ app' = [on_key([app EXCEPT !.selected = 3],
                                     Key("Enter"), NoOutcome).self
                                 EXCEPT !.selected = app.selected] ]_vars

\* C35 witness: the poweroff countdown has just been started by q, with
\* the first menu entry still selected
C35_Witness ==
    /\ app.app_state = Processing(progress_poweroff)
    /\ app.selected = 0
    /\ options[app.selected + 1] # "Exit"
    /\ app.progress_type = Some(Determinant(cli.countdown_seconds))
    /\ app.pending_system_action = Some("Poweroff")
    /\ cli.countdown_seconds > 0
    /\ app.countdown_remaining = cli.countdown_seconds
    /\ app.last_countdown_update = 0
    /\ pc = "top"

====
